---- MODULE Spec2Model ----
(***************************************************************************)
(* NexoraCrew Finance Backend (src/index.js): an Express API over three    *)
(* MongoDB collections (User, Transaction, Bank) with bcrypt password      *)
(* hashes and JWT bearer tokens.  The state is the three collections, the  *)
(* clock, the tokens the clients hold, the registrations in flight, and    *)
(* the last request with its response.  Each route handler is one action;  *)
(* POST /api/auth/register is two (it awaits the store twice).             *)
(***************************************************************************)
EXTENDS Integers, Sequences, FiniteSets, TLC

VARIABLES
  users,      \* the User collection: a set of documents
  txs,        \* the Transaction collection
  banks,      \* the Bank collection
  nextUser,   \* how many User documents were ever created (fresh _id source)
  nextTxn,    \* how many Transaction documents were ever created
  nextBank,   \* how many Bank documents were ever created
  now,        \* the clock, in whole seconds (the resolution of a token's iat/exp)
  held,       \* the tokens clients received and kept, each with the time it was issued at
  pend,       \* per connection: a registration between its findOne and its create
  req,        \* the last request served
  res,        \* its response
  txnMadeBy,  \* history: Transaction _id -> id of the user whose request created it
  bankMadeBy, \* history: Bank _id -> id of the user whose request created it
  registered  \* history: the (email, password, id) of every successful registration

userStore == <<users, nextUser, registered>>
txnStore == <<txs, nextTxn, txnMadeBy>>
bankStore == <<banks, nextBank, bankMadeBy>>
vars == <<users, txs, banks, nextUser, nextTxn, nextBank, now, held, pend, req, res,
          txnMadeBy, bankMadeBy, registered>>

----------------------------------------------------------------------------
(* Bounds of the model *)

MaxDocs == 2      \* Transaction and Bank documents ever created (Spec)
MaxAuthDocs == 1  \* Transaction and Bank documents ever created (SpecReg, SpecAuth)
MaxTicks == 4     \* clock steps taken (SpecAuth)

----------------------------------------------------------------------------
(* Values *)

\* ObjectId.toString(): the hex string of an ObjectId; CastObjectId is mongoose's
\* cast of such a string back to an ObjectId in a query filter.
toString(oid) == [hex |-> oid]
CastObjectId(s) == s.hex

\* Merge of object literals / $set: the fields of g override those of f.
Override(f, g) ==
  [k \in (DOMAIN f) \cup (DOMAIN g) |-> IF k \in DOMAIN g THEN g[k] ELSE f[k]]

EmptyBody == [k \in {} |-> ""]

----------------------------------------------------------------------------
(* bcryptjs: a salted one-way digest.  The digest is a function of the salt and
   the plaintext; compare recomputes it with the salt stored in the hash. *)

Salts == {"s1", "s2"}
Digest(salt, plaintext) == <<salt, plaintext>>
bcryptHash(plaintext, salt) == [salt |-> salt, digest |-> Digest(salt, plaintext)]
\* The bug of comparing a fresh hash of the plaintext with the stored hash.
bcryptCompareRehash(plaintext, hash) == hash = bcryptHash(plaintext, "s1")
bcryptCompare(plaintext, hash) == hash.digest = Digest(hash.salt, plaintext)

----------------------------------------------------------------------------
(* jsonwebtoken: a token is its claims and an HMAC of them under a key. *)

JWT_SECRET == "JWT_SECRET"
ExpiresIn == 7 * 24 * 60 * 60        \* expiresIn: '7d', in seconds

Hmac(key, claims) == <<key, claims>>
jwtSign(payload, key, at) ==
  LET claims == Override(payload, [iat |-> at, exp |-> at + ExpiresIn])
  IN [claims |-> claims, sig |-> Hmac(key, claims)]
\* The bug of jwt.decode in place of jwt.verify: the signature is not checked.
jwtDecode(token, key, at) ==
  IF at < token.claims.exp
  THEN [ok |-> TRUE, payload |-> token.claims]
  ELSE [ok |-> FALSE, error |-> "Invalid token"]
\* The bug of verifying with ignoreExpiration.
jwtVerifyIgnoreExpiration(token, key, at) ==
  IF token.sig = Hmac(key, token.claims)
  THEN [ok |-> TRUE, payload |-> token.claims]
  ELSE [ok |-> FALSE, error |-> "Invalid token"]
\* jwt.verify: the payload, or a throw (ok = FALSE) on a bad signature or expiry.
jwtVerify(token, key, at) ==
  IF token.sig = Hmac(key, token.claims) /\ at < token.claims.exp
  THEN [ok |-> TRUE, payload |-> token.claims]
  ELSE [ok |-> FALSE, error |-> "Invalid token"]

createToken(user, at) ==
  jwtSign([id |-> toString(user._id), name |-> user.name, email |-> user.email],
          JWT_SECRET, at)

sanitizeUser(user) ==
  [id |-> toString(user._id), name |-> user.name, email |-> user.email,
   position |-> user.position, createdAt |-> user.createdAt]

\* Authorization headers, as the words of the header line: <<>> is no header,
\* <<"Bearer">> is "Bearer " with an empty token.
\* auth: the 401 it answers, or the identity it puts in req.user.
auth(header, at) ==
  LET bearer == Len(header) >= 1 /\ header[1] = "Bearer"
      hasToken == bearer /\ Len(header) >= 2
  IN IF ~hasToken THEN [ok |-> FALSE, error |-> "No token"]
     ELSE LET v == jwtVerify(header[2], JWT_SECRET, at)
          IN IF v.ok THEN [ok |-> TRUE, user |-> v.payload]
             ELSE [ok |-> FALSE, error |-> "Invalid token"]

----------------------------------------------------------------------------
(* The mongoose schemas: required paths, enum values, defaults. *)

UserRequired == {"name", "email", "passwordHash"}
UserDefaults(at) == [position |-> "Member", createdAt |-> at]

TxnRequired == {"userId", "userName", "date", "type", "category"}
TxnTypes == {"INCOME", "EXPENSE"}
TxnDefaults == [description |-> ""]

BankRequired == {"userId", "bankName", "cardType"}
CardTypes == {"DEBIT", "CREDIT"}

\* Document validation on Model.create: a failure is a thrown ValidationError.
ValidUser(doc) == UserRequired \subseteq DOMAIN doc
ValidTxn(doc) == TxnRequired \subseteq DOMAIN doc /\ doc.type \in TxnTypes
ValidBank(doc) == BankRequired \subseteq DOMAIN doc /\ doc.cardType \in CardTypes

\* The unique index on User.email: an insert of a taken email throws E11000.
EmailTaken(coll, email) == \E u \in coll : u.email = email

\* The bug of a filter without the owner: {_id: id} and {_id: {$in: ids}}.
MatchOneAnyOwner(doc, id, uid) == doc._id = CastObjectId(id)
MatchInAnyOwner(doc, ids, uid) == doc._id \in {CastObjectId(i) : i \in ids}
\* Query filters {_id: id, userId: uid} and {_id: {$in: ids}, userId: uid}.
MatchOne(doc, id, uid) == doc._id = CastObjectId(id) /\ doc.userId = uid
MatchIn(doc, ids, uid) == doc._id \in {CastObjectId(i) : i \in ids} /\ doc.userId = uid
find(coll, uid) == {d \in coll : d.userId = uid}

\* updateOne(filter, {$set: body}); an empty $set changes nothing.
updateOne(coll, id, uid, body) ==
  {IF MatchOne(d, id, uid) THEN Override(d, body) ELSE d : d \in coll}
deleteOne(coll, id, uid) == {d \in coll : ~MatchOne(d, id, uid)}
deleteMany(coll, ids, uid) == {d \in coll : ~MatchIn(d, ids, uid)}
updateMany(coll, ids, uid, body) ==
  {IF MatchIn(d, ids, uid) THEN Override(d, body) ELSE d : d \in coll}

mapTransaction(t) ==
  [id |-> toString(t._id), userId |-> t.userId, userName |-> t.userName,
   date |-> t.date, type |-> t.type, category |-> t.category,
   description |-> t.description]

mapBank(b) ==
  [id |-> toString(b._id), userId |-> b.userId, bankName |-> b.bankName,
   cardType |-> b.cardType]

----------------------------------------------------------------------------
(* Requests and responses *)

NoUser == [anonymous |-> TRUE]
NoId == toString(0)

Request(op, header, a, id, ids, body) ==
  [op |-> op, header |-> header, user |-> IF a.ok THEN a.user ELSE NoUser,
   id |-> id, ids |-> ids, body |-> body]

Json(status, body) == [status |-> status, body |-> body]
Unauthorized(a) == Json(401, [error |-> a.error])
Success == Json(200, [success |-> TRUE])
\* A rejection in an async handler with no try/catch: Express 5 answers 500,
\* Express 4 leaves the request unanswered (status 0).
Unhandled == {Json(500, [error |-> "Internal Server Error"]), Json(0, [none |-> TRUE])}

\* .sort({key: -1}): the documents in descending key order; documents with equal
\* keys come in an order the store chooses.
Lists(S) ==
  {s \in [1..Cardinality(S) -> S] : \A i, j \in 1..Cardinality(S) : i # j => s[i] # s[j]}

\* Dates are opaque strings, here the sequence of their numbers; strings sort
\* lexicographically.
RECURSIVE StrLess(_, _)
StrLess(a, b) ==
  IF b = <<>> THEN FALSE
  ELSE IF a = <<>> THEN TRUE
  ELSE IF a[1] # b[1] THEN a[1] < b[1]
  ELSE StrLess(Tail(a), Tail(b))
DateLess(t, u) == StrLess(t.date, u.date)
CreatedLess(t, u) == t.createdAt < u.createdAt
SortByDateDesc(S) ==
  {s \in Lists(S) : \A i \in 1..(Cardinality(S) - 1) : ~DateLess(s[i], s[i + 1])}
SortByCreatedAtDesc(S) ==
  {s \in Lists(S) : \A i \in 1..(Cardinality(S) - 1) : ~CreatedLess(s[i], s[i + 1])}

\* The client keeps the newest token it got for an identity.
Keep(tokens, token, at) ==
  {t \in tokens : t.token.claims.id # token.claims.id} \cup {[token |-> token, at |-> at]}

----------------------------------------------------------------------------
(* The routes *)

\* GET /api/ping
Ping ==
  /\ req' = Request("GET /api/ping", <<>>, [ok |-> FALSE], NoId, {}, EmptyBody)
  /\ res' = Json(200, [ok |-> TRUE])
  /\ UNCHANGED <<userStore, txnStore, bankStore, now, held, pend>>

\* POST /api/auth/register, up to the answer of User.findOne({email}).
RegisterFind(p, name, email, password) ==
  /\ pend[p].pc # "create"
  /\ IF EmailTaken(users, email)
     THEN /\ req' = Request("POST /api/auth/register", <<>>, [ok |-> FALSE], NoId, {},
                            [name |-> name, email |-> email, password |-> password])
          /\ res' = Json(400, [error |-> "Email already exists"])
          /\ pend' = [pend EXCEPT ![p] = [pc |-> "done", email |-> email, ok |-> FALSE]]
     ELSE /\ pend' = [pend EXCEPT ![p] = [pc |-> "create", name |-> name,
                                          email |-> email, password |-> password]]
          /\ UNCHANGED <<req, res>>
  /\ UNCHANGED <<userStore, txnStore, bankStore, now, held>>

\* The bug of a schema without unique: true on email.
UserCreateNoIndex(coll, doc) == coll \cup {doc}
\* User.create under validation and the unique index on email: the collection
\* with the document, or a throw that leaves it as it was.
UserCreate(coll, doc) ==
  IF ValidUser(doc) /\ ~EmailTaken(coll, doc.email) THEN coll \cup {doc} ELSE coll

\* POST /api/auth/register, from bcrypt.hash to the response.
RegisterCreate(p, salt) ==
  /\ pend[p].pc = "create"
  /\ LET r == pend[p]
         user == Override(UserDefaults(now),
                   [_id |-> nextUser + 1, name |-> r.name, email |-> r.email,
                    passwordHash |-> bcryptHash(r.password, salt)])
         token == createToken(user, now)
         created == user \in UserCreate(users, user)
     IN /\ req' = Request("POST /api/auth/register", <<>>, [ok |-> FALSE], NoId, {},
                          [name |-> r.name, email |-> r.email, password |-> r.password])
        /\ users' = UserCreate(users, user)
        /\ pend' = [pend EXCEPT ![p] = [pc |-> "done", email |-> r.email, ok |-> created]]
        /\ IF created
           THEN /\ nextUser' = nextUser + 1
                /\ registered' = registered \cup
                     {[email |-> r.email, password |-> r.password, id |-> toString(user._id)]}
                /\ held' = Keep(held, token, now)
                /\ res' = Json(200, [user |-> sanitizeUser(user), token |-> token])
           ELSE /\ res' = Json(400, [error |-> "E11000 duplicate key error"])
                /\ UNCHANGED <<nextUser, registered, held>>
  /\ UNCHANGED <<txnStore, bankStore, now>>

\* The bug of telling an unknown email from a wrong password.
LoginResponseNamesUser(coll, email, password, at) ==
  IF ~EmailTaken(coll, email) THEN Json(400, [error |-> "User not found"])
  ELSE LET user == CHOOSE u \in coll : u.email = email
       IN IF ~bcryptCompare(password, user.passwordHash)
          THEN Json(400, [error |-> "Invalid credentials"])
          ELSE Json(200, [user |-> sanitizeUser(user), token |-> createToken(user, at)])
\* What POST /api/auth/login answers, given the User collection and the clock.
LoginResponse(coll, email, password, at) ==
  IF ~EmailTaken(coll, email) THEN Json(400, [error |-> "Invalid credentials"])
  ELSE LET user == CHOOSE u \in coll : u.email = email
       IN IF ~bcryptCompare(password, user.passwordHash)
          THEN Json(400, [error |-> "Invalid credentials"])
          ELSE Json(200, [user |-> sanitizeUser(user), token |-> createToken(user, at)])

\* POST /api/auth/login
Login(email, password) ==
  /\ req' = Request("POST /api/auth/login", <<>>, [ok |-> FALSE], NoId, {},
                    [email |-> email, password |-> password])
  /\ res' = LoginResponse(users, email, password, now)
  /\ held' = IF res'.status = 200 THEN Keep(held, res'.body.token, now) ELSE held
  /\ UNCHANGED <<userStore, txnStore, bankStore, now, pend>>

\* GET /api/users
GetUsers(header) ==
  LET a == auth(header, now) IN
  /\ req' = Request("GET /api/users", header, a, NoId, {}, EmptyBody)
  /\ IF ~a.ok THEN res' = Unauthorized(a)
     ELSE \E list \in SortByCreatedAtDesc(users) :
            res' = Json(200, [list |-> [i \in 1..Len(list) |-> sanitizeUser(list[i])]])
  /\ UNCHANGED <<userStore, txnStore, bankStore, now, held, pend>>

\* GET /api/transactions
GetTxns(header) ==
  LET a == auth(header, now) IN
  /\ req' = Request("GET /api/transactions", header, a, NoId, {}, EmptyBody)
  /\ IF ~a.ok THEN res' = Unauthorized(a)
     ELSE \E list \in SortByDateDesc(find(txs, a.user.id)) :
            res' = Json(200, [list |-> [i \in 1..Len(list) |-> mapTransaction(list[i])]])
  /\ UNCHANGED <<userStore, txnStore, bankStore, now, held, pend>>

\* The bug of spreading the body last: {userId, userName, ...body}.
NewTxnBodyLast(body, user, oid) ==
  Override(TxnDefaults,
    Override(Override([userId |-> user.id, userName |-> user.name], body),
             [_id |-> oid]))
\* The document POST /api/transactions hands to Transaction.create:
\* {...body, userId: req.user.id, userName: req.user.name}, with the schema's
\* defaults and a fresh _id.
NewTxn(body, user, oid) ==
  Override(TxnDefaults,
    Override(Override(body, [userId |-> user.id, userName |-> user.name]),
             [_id |-> oid]))

\* POST /api/transactions
PostTxn(header, body) ==
  LET a == auth(header, now) IN
  /\ req' = Request("POST /api/transactions", header, a, NoId, {}, body)
  /\ IF ~a.ok THEN res' = Unauthorized(a) /\ UNCHANGED txnStore
     ELSE LET tx == NewTxn(body, a.user, nextTxn + 1) IN
          IF ValidTxn(tx)
          THEN /\ txs' = txs \cup {tx}
               /\ nextTxn' = nextTxn + 1
               /\ txnMadeBy' = [i \in 1..(nextTxn + 1) |->
                                  IF i = nextTxn + 1 THEN a.user.id ELSE txnMadeBy[i]]
               /\ res' = Json(200, mapTransaction(tx))
          ELSE /\ res' \in Unhandled
               /\ UNCHANGED txnStore
  /\ UNCHANGED <<userStore, bankStore, now, held, pend>>

\* PUT /api/transactions/:id
PutTxn(header, id, body) ==
  LET a == auth(header, now) IN
  /\ req' = Request("PUT /api/transactions/:id", header, a, id, {}, body)
  /\ IF ~a.ok THEN res' = Unauthorized(a) /\ UNCHANGED txs
     ELSE /\ txs' = updateOne(txs, id, a.user.id, body)
          /\ res' = Success
  /\ UNCHANGED <<userStore, nextTxn, txnMadeBy, bankStore, now, held, pend>>

\* DELETE /api/transactions/:id
DeleteTxn(header, id) ==
  LET a == auth(header, now) IN
  /\ req' = Request("DELETE /api/transactions/:id", header, a, id, {}, EmptyBody)
  /\ IF ~a.ok THEN res' = Unauthorized(a) /\ UNCHANGED txs
     ELSE /\ txs' = deleteOne(txs, id, a.user.id)
          /\ res' = Success
  /\ UNCHANGED <<userStore, nextTxn, txnMadeBy, bankStore, now, held, pend>>

\* POST /api/transactions/bulk-delete
BulkDelete(header, ids) ==
  LET a == auth(header, now) IN
  /\ req' = Request("POST /api/transactions/bulk-delete", header, a, NoId, ids, EmptyBody)
  /\ IF ~a.ok THEN res' = Unauthorized(a) /\ UNCHANGED txs
     ELSE /\ txs' = deleteMany(txs, ids, a.user.id)
          /\ res' = Success
  /\ UNCHANGED <<userStore, nextTxn, txnMadeBy, bankStore, now, held, pend>>

\* POST /api/transactions/bulk-category
BulkCategory(header, ids, category) ==
  LET a == auth(header, now) IN
  /\ req' = Request("POST /api/transactions/bulk-category", header, a, NoId, ids,
                    [category |-> category])
  /\ IF ~a.ok THEN res' = Unauthorized(a) /\ UNCHANGED txs
     ELSE /\ txs' = updateMany(txs, ids, a.user.id, [category |-> category])
          /\ res' = Success
  /\ UNCHANGED <<userStore, nextTxn, txnMadeBy, bankStore, now, held, pend>>

\* GET /api/banks
GetBanks(header) ==
  LET a == auth(header, now) IN
  /\ req' = Request("GET /api/banks", header, a, NoId, {}, EmptyBody)
  /\ IF ~a.ok THEN res' = Unauthorized(a)
     ELSE \E list \in Lists(find(banks, a.user.id)) :
            res' = Json(200, [list |-> [i \in 1..Len(list) |-> mapBank(list[i])]])
  /\ UNCHANGED <<userStore, txnStore, bankStore, now, held, pend>>

\* The document POST /api/banks hands to Bank.create: {...body, userId: req.user.id}.
NewBank(body, user, oid) ==
  Override(Override(body, [userId |-> user.id]), [_id |-> oid])

\* POST /api/banks
PostBank(header, body) ==
  LET a == auth(header, now) IN
  /\ req' = Request("POST /api/banks", header, a, NoId, {}, body)
  /\ IF ~a.ok THEN res' = Unauthorized(a) /\ UNCHANGED bankStore
     ELSE LET bank == NewBank(body, a.user, nextBank + 1) IN
          IF ValidBank(bank)
          THEN /\ banks' = banks \cup {bank}
               /\ nextBank' = nextBank + 1
               /\ bankMadeBy' = [i \in 1..(nextBank + 1) |->
                                   IF i = nextBank + 1 THEN a.user.id ELSE bankMadeBy[i]]
               /\ res' = Json(200, mapBank(bank))
          ELSE /\ res' \in Unhandled
               /\ UNCHANGED bankStore
  /\ UNCHANGED <<userStore, txnStore, now, held, pend>>

\* PUT /api/banks/:id
PutBank(header, id, body) ==
  LET a == auth(header, now) IN
  /\ req' = Request("PUT /api/banks/:id", header, a, id, {}, body)
  /\ IF ~a.ok THEN res' = Unauthorized(a) /\ UNCHANGED banks
     ELSE /\ banks' = updateOne(banks, id, a.user.id, body)
          /\ res' = Success
  /\ UNCHANGED <<userStore, txnStore, nextBank, bankMadeBy, now, held, pend>>

\* DELETE /api/banks/:id
DeleteBank(header, id) ==
  LET a == auth(header, now) IN
  /\ req' = Request("DELETE /api/banks/:id", header, a, id, {}, EmptyBody)
  /\ IF ~a.ok THEN res' = Unauthorized(a) /\ UNCHANGED banks
     ELSE /\ banks' = deleteOne(banks, id, a.user.id)
          /\ res' = Success
  /\ UNCHANGED <<userStore, txnStore, nextBank, bankMadeBy, now, held, pend>>

\* The clock advances.
Tick(d) ==
  /\ now' = now + d
  /\ UNCHANGED <<userStore, txnStore, bankStore, held, pend, req, res>>

----------------------------------------------------------------------------
(* Inputs *)

Procs == {"c1", "c2"}
RegInputs ==
  {<<"ann", "ann@x", "pw1">>, <<"bob", "bob@x", "pw2">>, <<"eve", "ann@x", "pw2">>}
LoginEmails == {"ann@x", "bob@x", "zed@x"}
Passwords == {"pw1", "pw2"}

UserIds == {toString(1), toString(2)}
DocIds == {toString(i) : i \in 1..MaxDocs}

\* A valid body, the same body claiming ann's identity, a body with no category,
\* a body whose type is not in the enum.
TxnBodies ==
  { [date |-> <<2024, 1, 5>>, type |-> "INCOME", category |-> "salary"],
    [date |-> <<2024, 1, 5>>, type |-> "INCOME", category |-> "salary",
     userId |-> toString(1), userName |-> "ann"],
    [date |-> <<2024, 1, 5>>, type |-> "EXPENSE"],
    [date |-> <<2024, 1, 5>>, type |-> "LOAN", category |-> "salary"] }
TxnUpdates == { [category |-> "misc"], [userId |-> toString(2)] }
Categories == {"misc"}

BankBodies ==
  { [bankName |-> "hdfc", cardType |-> "DEBIT"],
    [bankName |-> "hdfc", cardType |-> "DEBIT", userId |-> toString(1)],
    [bankName |-> "hdfc"] }
BankUpdates == { [bankName |-> "axis"] }

\* Tokens nobody issued: a held token with its identity changed and its signature
\* kept, and a held token's claims signed with another key.
Tokens == {h.token : h \in held}
Forged ==
  UNION {{[t EXCEPT !.claims.id = u] : u \in UserIds \ {t.claims.id}} : t \in Tokens}
  \cup {[claims |-> t.claims, sig |-> Hmac("guess", t.claims)] : t \in Tokens}

Callers == {<<"Bearer", t>> : t \in Tokens}
Headers ==
  Callers \cup {<<>>, <<"Bearer">>} \cup {<<"Basic", t>> : t \in Tokens}
  \cup {<<"Bearer", t>> : t \in Forged}

TickSteps == {1, ExpiresIn - 1}
TicksTaken == (now \div (ExpiresIn - 1)) + (now % (ExpiresIn - 1))

----------------------------------------------------------------------------
(* Specifications *)

NoRequest == Request("", <<>>, [ok |-> FALSE], NoId, {}, EmptyBody)
NoResponse == Json(0, [none |-> TRUE])

\* The service after start-up: empty collections.
RegInit ==
  /\ users = {} /\ txs = {} /\ banks = {}
  /\ nextUser = 0 /\ nextTxn = 0 /\ nextBank = 0
  /\ now = 0 /\ held = {}
  /\ pend = [p \in Procs |-> [pc |-> "idle"]]
  /\ req = NoRequest /\ res = NoResponse
  /\ txnMadeBy = <<>> /\ bankMadeBy = <<>> /\ registered = {}

\* Registration on two connections at once, login, the user list, and the
\* registered users writing and deleting a transaction.
RegNext ==
  \/ Ping
  \/ \E p \in Procs, r \in RegInputs : RegisterFind(p, r[1], r[2], r[3])
  \/ \E p \in Procs, s \in Salts : RegisterCreate(p, s)
  \/ \E e \in LoginEmails, w \in Passwords : Login(e, w)
  \/ \E h \in Callers : GetUsers(h)
  \/ \E h \in Callers : nextTxn < MaxAuthDocs /\ PostTxn(h, [date |-> <<2024, 1, 5>>, type |-> "INCOME", category |-> "salary"])
  \/ \E h \in Callers : PutTxn(h, toString(1), [userId |-> toString(2)])
  \/ \E h \in Callers : DeleteTxn(h, toString(1))

SpecReg == RegInit /\ [][RegNext]_vars

Ann == Override(UserDefaults(0), [_id |-> 1, name |-> "ann", email |-> "ann@x",
                                  passwordHash |-> bcryptHash("pw1", "s1")])
Bob == Override(UserDefaults(0), [_id |-> 2, name |-> "bob", email |-> "bob@x",
                                  passwordHash |-> bcryptHash("pw2", "s1")])

\* The service after ann (on c1) and then bob (on c2) registered at time 0.
Init ==
  /\ users = {Ann, Bob} /\ txs = {} /\ banks = {}
  /\ nextUser = 2 /\ nextTxn = 0 /\ nextBank = 0
  /\ now = 0 /\ held = {[token |-> createToken(Ann, 0), at |-> 0], [token |-> createToken(Bob, 0), at |-> 0]}
  /\ pend = [p \in Procs |-> [pc |-> "done", email |-> IF p = "c1" THEN "ann@x" ELSE "bob@x",
                              ok |-> TRUE]]
  /\ req = Request("POST /api/auth/register", <<>>, [ok |-> FALSE], NoId, {},
                   [name |-> "bob", email |-> "bob@x", password |-> "pw2"])
  /\ res = Json(200, [user |-> sanitizeUser(Bob), token |-> createToken(Bob, 0)])
  /\ txnMadeBy = <<>> /\ bankMadeBy = <<>>
  /\ registered = {[email |-> "ann@x", password |-> "pw1", id |-> toString(1)],
                   [email |-> "bob@x", password |-> "pw2", id |-> toString(2)]}

\* The transaction and bank routes, called by ann and by bob.
Next ==
  \/ \E h \in Callers : GetTxns(h)
  \/ \E h \in Callers, b \in TxnBodies : nextTxn + nextBank < MaxDocs /\ PostTxn(h, b)
  \/ \E h \in Callers, i \in DocIds, b \in TxnUpdates : PutTxn(h, i, b)
  \/ \E h \in Callers, i \in DocIds : DeleteTxn(h, i)
  \/ \E h \in Callers, ids \in SUBSET DocIds : BulkDelete(h, ids)
  \/ \E h \in Callers, ids \in SUBSET DocIds, c \in Categories : BulkCategory(h, ids, c)
  \/ \E h \in Callers : GetBanks(h)
  \/ \E h \in Callers, b \in BankBodies : nextTxn + nextBank < MaxDocs /\ PostBank(h, b)
  \/ \E h \in Callers, i \in DocIds, b \in BankUpdates : PutBank(h, i, b)
  \/ \E h \in Callers, i \in DocIds : DeleteBank(h, i)

Spec == Init /\ [][Next]_vars

\* The service after ann (on c1) registered at time 0.
AuthInit ==
  /\ users = {Ann} /\ txs = {} /\ banks = {}
  /\ nextUser = 1 /\ nextTxn = 0 /\ nextBank = 0
  /\ now = 0 /\ held = {[token |-> createToken(Ann, 0), at |-> 0]}
  /\ pend = [p \in Procs |-> IF p = "c1" THEN [pc |-> "done", email |-> "ann@x", ok |-> TRUE]
                              ELSE [pc |-> "idle"]]
  /\ req = Request("POST /api/auth/register", <<>>, [ok |-> FALSE], NoId, {},
                   [name |-> "ann", email |-> "ann@x", password |-> "pw1"])
  /\ res = Json(200, [user |-> sanitizeUser(Ann), token |-> createToken(Ann, 0)])
  /\ txnMadeBy = <<>> /\ bankMadeBy = <<>>
  /\ registered = {[email |-> "ann@x", password |-> "pw1", id |-> toString(1)]}

\* Every route but registration, under every kind of Authorization header, while
\* the clock runs and ann logs in again.
AuthNext ==
  \/ Ping
  \/ \E w \in Passwords : Login("ann@x", w)
  \/ \E d \in TickSteps : TicksTaken < MaxTicks /\ Tick(d)
  \/ \E h \in Headers : GetUsers(h)
  \/ \E h \in Headers : GetTxns(h)
  \/ \E h \in Headers : nextTxn + nextBank < MaxAuthDocs /\ PostTxn(h, [date |-> <<2024, 1, 5>>, type |-> "INCOME", category |-> "salary"])
  \/ \E h \in Headers : PutTxn(h, toString(1), [category |-> "misc"])
  \/ \E h \in Headers : DeleteTxn(h, toString(1))
  \/ \E h \in Headers : BulkDelete(h, {toString(1)})
  \/ \E h \in Headers : BulkCategory(h, {toString(1)}, "misc")
  \/ \E h \in Headers : GetBanks(h)
  \/ \E h \in Headers : nextTxn + nextBank < MaxAuthDocs /\ PostBank(h, [bankName |-> "hdfc", cardType |-> "DEBIT"])
  \/ \E h \in Headers : PutBank(h, toString(1), [bankName |-> "axis"])
  \/ \E h \in Headers : DeleteBank(h, toString(1))

SpecAuth == AuthInit /\ [][AuthNext]_vars

----------------------------------------------------------------------------
(* Claims *)

OpPostTxn == "POST /api/transactions"
OpPutTxn == "PUT /api/transactions/:id"
OpDeleteTxn == "DELETE /api/transactions/:id"
OpBulkDelete == "POST /api/transactions/bulk-delete"
OpBulkCategory == "POST /api/transactions/bulk-category"
OpPutBank == "PUT /api/banks/:id"
OpDeleteBank == "DELETE /api/banks/:id"
OpLogin == "POST /api/auth/login"
OpRegister == "POST /api/auth/register"

Authenticated(r) == "id" \in DOMAIN r.user
\* The records a response carries.
Returned(r) ==
  IF "list" \in DOMAIN r.body THEN {r.body.list[i] : i \in DOMAIN r.body.list}
  ELSE IF "userId" \in DOMAIN r.body THEN {r.body}
  ELSE {}

\* C1: every stored transaction and every stored bank record has the userId of
\* the user whose request created it, whatever requests were served since.
C1_OwnershipPermanent ==
  /\ \A t \in txs : t.userId = txnMadeBy[t._id]
  /\ \A b \in banks : b.userId = bankMadeBy[b._id]

\* C2: a request by user A returns no record whose userId is another user's, and
\* leaves the set and contents of every other user's transactions and bank
\* records as they were.
C2_Isolation ==
  [][Authenticated(req') =>
       /\ \A r \in Returned(res') : r.userId = req'.user.id
       /\ \A u \in UserIds \ {req'.user.id} :
            /\ find(txs', u) = find(txs, u)
            /\ find(banks', u) = find(banks, u)]_vars

Target(coll, r) == {d \in coll : toString(d._id) = r.id /\ d.userId = r.user.id}

OwnFields(body) == (DOMAIN body) \ {"userId", "userName"}
\* A body the Transaction schema accepts once the owner fields are set.
SchemaValid(body) ==
  {"date", "type", "category"} \subseteq DOMAIN body /\ body.type \in {"INCOME", "EXPENSE"}

\* The effect C10 describes of POST /api/transactions with the request req'.
Created ==
  \E t \in txs' :
    /\ txs' = txs \cup {t}
    /\ \A d \in txs : d._id # t._id
    /\ t.userId = req'.user.id /\ t.userName = req'.user.name
    /\ \A k \in OwnFields(req'.body) : t[k] = req'.body[k]
    /\ res' = Json(200, mapTransaction(t))
    /\ mapTransaction(t) \in {mapTransaction(d) : d \in find(txs', req'.user.id)}
    /\ \A u \in UserIds \ {req'.user.id} : t \notin find(txs', u)

\* C10, as stated: POST /transactions by A with any body F adds exactly one
\* transaction with a fresh id, A's userId and userName, and F's other fields;
\* GET /transactions returns it to A and to nobody else.
C10_CreateRoundTrip ==
  [][(Authenticated(req') /\ req'.op = OpPostTxn) => Created]_vars

\* C10, amended: the same, for a body F that satisfies the Transaction schema.
C10_CreateRoundTripValid ==
  [][(Authenticated(req') /\ req'.op = OpPostTxn /\ SchemaValid(req'.body)) => Created]_vars

\* bob posted a body that names ann as owner; the transaction is bob's.
C10_Witness ==
  /\ req.op = OpPostTxn /\ Authenticated(req) /\ res.status = 200
  /\ "userId" \in DOMAIN req.body /\ req.body.userId # req.user.id
  /\ res.body.userId = req.user.id /\ res.body.userName = req.user.name
  /\ \E t \in txs : mapTransaction(t) = res.body

EmailUnique == \A u, v \in users : u.email = v.email => u = v
\* Two connections whose registrations both succeeded registered different emails.
OneWinner ==
  \A p, q \in Procs :
    (p # q /\ pend[p].pc = "done" /\ pend[q].pc = "done" /\ pend[p].ok /\ pend[q].ok)
      => pend[p].email # pend[q].email
\* A registration that ends: {user, token} and one more user, whose email was
\* free, or 400 with an error and no new user.
RegistrationOutcome ==
  \A p \in Procs :
    (pend'[p] # pend[p] /\ pend'[p].pc = "done") =>
      /\ req'.op = OpRegister /\ req'.body.email = pend'[p].email
      /\ IF pend'[p].ok
         THEN /\ res'.status = 200 /\ DOMAIN res'.body = {"user", "token"}
              /\ ~EmailTaken(users, pend'[p].email)
              /\ \E u \in users' : /\ users' = users \cup {u} /\ u \notin users
                                   /\ u.email = pend'[p].email
                                   /\ res'.body.user.id = toString(u._id)
         ELSE /\ res'.status = 400 /\ DOMAIN res'.body = {"error"}
              /\ users' = users

\* C4: under any interleaving of registrations no two users have the same
\* email; of the registrations racing on one email at most one gets
\* {user, token}, and every other gets 400 with an error and creates no user.
C4_EmailUniqueUnderRace ==
  [](EmailUnique /\ OneWinner) /\ [][RegistrationOutcome]_vars

\* Two registrations of one email both passed findOne; the first create won and
\* the second was refused by the unique index.
C4_Witness ==
  /\ pend["c1"].pc = "done" /\ pend["c2"].pc = "done"
  /\ pend["c1"].email = pend["c2"].email
  /\ pend["c1"].ok /\ ~pend["c2"].ok
  /\ req.op = OpRegister /\ res = Json(400, [error |-> "E11000 duplicate key error"])

\* C5: after a successful registration, whatever requests follow, a login with
\* the registered email and password succeeds, with the registered email and
\* the id the registration returned.
C5_RegisterThenLogin ==
  \A r \in registered :
    LET a == LoginResponse(users, r.email, r.password, now)
    IN /\ a.status = 200 /\ DOMAIN a.body = {"user", "token"}
       /\ a.body.user.email = r.email /\ a.body.user.id = r.id

\* The first of two registered users has logged in with the registered
\* credentials after the second registered and a transaction was written.
C5_Witness ==
  /\ Cardinality(registered) = 2 /\ nextTxn > 0
  /\ req.op = OpLogin /\ res.status = 200 /\ res.body.user.id = toString(1)
  /\ \E r \in registered : /\ r.id = toString(1) /\ r.email = req.body.email
                           /\ r.password = req.body.password

\* The login of the request r is one with an email no user has, or with a
\* password other than the one its user registered with.
BadCredentials(r) ==
  \/ ~EmailTaken(users, r.body.email)
  \/ \E c \in registered : c.email = r.body.email /\ c.password # r.body.password

\* C6: a login with an unknown email and a login with a wrong password both get
\* 400 with the message 'Invalid credentials', no token, and change nothing.
C6_LoginFailureUniform ==
  [][(req'.op = OpLogin /\ BadCredentials(req')) =>
       /\ res' = Json(400, [error |-> "Invalid credentials"])
       /\ UNCHANGED <<users, txs, banks, held>>]_vars

\* A login with a registered email and another password was refused.
C6_Witness ==
  /\ req.op = OpLogin /\ EmailTaken(users, req.body.email) /\ BadCredentials(req)
  /\ res = Json(400, [error |-> "Invalid credentials"])

\* A login with an email no user has was refused.
C6_WitnessUnknown ==
  /\ req.op = OpLogin /\ ~EmailTaken(users, req.body.email) /\ users # {}
  /\ res = Json(400, [error |-> "Invalid credentials"])

\* Every route but GET /ping, POST /auth/register and POST /auth/login.
ProtectedOps ==
  {"GET /api/users", "GET /api/transactions", OpPostTxn, OpPutTxn, OpDeleteTxn,
   OpBulkDelete, OpBulkCategory, "GET /api/banks", "POST /api/banks", OpPutBank,
   OpDeleteBank}

\* The tokens the service issued that are within their window at the time `at`.
Current(at) == {h.token : h \in {g \in held : at < g.at + ExpiresIn}}
\* A header of the form 'Bearer <token>' whose token the service issued and is
\* within its window.
GoodHeader(header, at) ==
  Len(header) = 2 /\ header[1] = "Bearer" /\ header[2] \in Current(at)

\* C7: on a protected route a request whose header is missing, is not of the
\* form 'Bearer <token>', or carries a token that does not verify, is answered
\* 401 with an error, returns no record and leaves the store as it was; a
\* request is served only with req.user the identity carried by its token.
C7_AuthGate ==
  [][(req'.op \in ProtectedOps /\ now' = now) =>
       IF GoodHeader(req'.header, now)
       THEN /\ res'.status # 401
            /\ Authenticated(req')
            /\ req'.user.id = req'.header[2].claims.id
            /\ req'.user.name = req'.header[2].claims.name
            /\ req'.user.email = req'.header[2].claims.email
       ELSE /\ res'.status = 401 /\ DOMAIN res'.body = {"error"}
            /\ ~Authenticated(req')
            /\ UNCHANGED <<users, txs, banks, nextUser, nextTxn, nextBank>>
    ]_vars

\* A PUT on ann's existing transaction with her own token, expired, was
\* answered 401 and the transaction does not have the new category.
C7_Witness ==
  /\ req.op = OpPutTxn /\ res.status = 401
  /\ Len(req.header) = 2 /\ req.header[1] = "Bearer"
  /\ \E h \in held : h.token = req.header[2] /\ now >= h.at + ExpiresIn
  /\ \E t \in txs : /\ toString(t._id) = req.id /\ t.userId = req.header[2].claims.id
                    /\ t.category # req.body.category

\* A token signed with another key was answered 401 on a DELETE of the
\* transaction of the user it names, which is still there.
C7_WitnessForged ==
  /\ req.op = OpDeleteTxn /\ res.status = 401
  /\ Len(req.header) = 2 /\ req.header[1] = "Bearer"
  /\ req.header[2].sig # Hmac(JWT_SECRET, req.header[2].claims)
  /\ \E t \in txs : toString(t._id) = req.id /\ t.userId = req.header[2].claims.id

\* C8: a token issued at time t is accepted by the auth middleware, with the
\* identity embedded at issuance, at every time before t + 7 days and rejected
\* at every time after t + 7 days.
C8_TokenWindow ==
  \A h \in held :
    LET a == auth(<<"Bearer", h.token>>, now)
    IN /\ now < h.at + ExpiresIn =>
            /\ a.ok /\ a.user.id = h.token.claims.id
            /\ \E u \in users : /\ a.user.id = toString(u._id) /\ a.user.name = u.name
                                /\ a.user.email = u.email
       /\ now > h.at + ExpiresIn => ~a.ok /\ a.error = "Invalid token"

\* A token issued by a login after start was accepted on a protected route,
\* and the clock is now past its window.
C8_Witness ==
  \E h \in held :
    /\ h.at > 0 /\ now > h.at + ExpiresIn
    /\ req.op \in ProtectedOps /\ req.header = <<"Bearer", h.token>>
    /\ res.status = 200

====
